---- MODULE Spec2Model ----
(***************************************************************************)
(* Reference selection of deenurp: choose_references and                   *)
(* select_sequences_for_cluster (deenurp/select.py) and the                *)
(* search-sequences subcommand (deenurp/subcommands/search_sequences.py).  *)
(*                                                                         *)
(* The external tools are black boxes: each invocation exits with a code   *)
(* and, when it reports identifiers, may report any set of them.           *)
(***************************************************************************)
EXTENDS Integers, Sequences, FiniteSets, TLC

(* ---- bounds of the model ---- *)
MaxWeight == 2          \* sequence weights are 1..MaxWeight
MaxKeep == 2            \* refs_per_cluster is 1..MaxKeep
MaxRefs == 3            \* members listed for one cluster
PropDen == 2            \* min_cluster_prop is k / PropDen, k in 0..PropDen
MaxRows == 3            \* rows of a weights file

(* ---- the universe of names ---- *)
ClusterNames == {"c1", "c2"}
RefIds == {"r1", "r2", "r3"}          \* names in the reference FASTA
QueryIds == {"q1", "q2"}              \* names in the query FASTA
ForeignIds == {"x1"}                  \* a name that is in neither file
ToolIds == RefIds \cup ForeignIds     \* names a tool may report back
ExitCodes == {0, 1}

VARIABLES
    \* the database and the parameters of choose_references
    weight,             \* sequences.weight, by sequence name
    best_hit,           \* cluster of the best hit of each sequence
    refs_per_cluster,
    min_cluster_prop,   \* numerator k of k / PropDen
    \* choose_references
    pc,
    total_weight,
    cursor,             \* rows not yet iterated, <<cluster_name, total_weight>>
    cluster_name,
    cluster_weight,
    cluster_refs,
    query_seqs,
    ref_names,
    out,                \* the references yielded so far
    selected,           \* clusters select_sequences_for_cluster was called for
    \* select_sequences_for_cluster and _cluster
    ref_seqs,
    aligned,
    prune_leaves,
    \* the environment
    held,               \* temporary files and directories currently held
    steps,              \* tool invocations for the current cluster
    error,
    \* the search-sequences subcommand
    a_pc,
    args_weights,       \* the rows of the --weights file, or NoFile
    a_weights,
    create_calls        \* the weights argument of each create_database call

cvars == <<weight, best_hit, refs_per_cluster, min_cluster_prop, pc,
           total_weight, cursor, cluster_name, cluster_weight, cluster_refs,
           query_seqs, ref_names, out, selected, ref_seqs, aligned,
           prune_leaves, held, steps, error>>
avars == <<a_pc, args_weights, a_weights, create_calls>>
vars == <<cvars, avars>>

(* ---- helpers ---- *)
RECURSIVE SumOver(_, _)
SumOver(f, S) ==
    IF S = {} THEN 0
    ELSE LET x == CHOOSE y \in S : TRUE IN f[x] + SumOver(f, S \ {x})

Range(s) == {s[i] : i \in DOMAIN s}

\* sequences of at most n distinct elements of S
DistinctSeqs(S, n) ==
    {s \in UNION {[1..k -> S] : k \in 0..n} :
        \A i, j \in DOMAIN s : i # j => s[i] # s[j]}

\* a SeqRecord parsed from a flat file; weight 0 stands for no annotation
seqrecord(name) == [id |-> name, weight |-> 0]

Ids(seqs) == [k \in DOMAIN seqs |-> seqs[k].id]
IdSet(seqs) == {seqs[k].id : k \in DOMAIN seqs}

NoNames == [kind |-> "none", list |-> <<>>, set |-> {}]
NoError == [kind |-> "none", at |-> "none"]


(* ---- the database ---- *)

\* vw_cluster_weights: one row per cluster with a hit, weighted by its hits
vw_cluster_weights ==
    {<<c, SumOver(weight, {q \in QueryIds : best_hit[q] = c})>> :
        c \in {best_hit[q] : q \in QueryIds} \ {"nohit"}}

\* SELECT SUM(weight) FROM sequences
get_total_weight == SumOver(weight, QueryIds)

\* variant: the query without its ORDER BY
order_unsorted(rows) ==
    {s \in DistinctSeqs(rows, Cardinality(rows)) : Len(s) = Cardinality(rows)}

\* SELECT ... ORDER BY total_weight DESC: every order the query may return
order_by_weight_desc(rows) ==
    {s \in DistinctSeqs(rows, Cardinality(rows)) :
        /\ Len(s) = Cardinality(rows)
        /\ \A i, j \in DOMAIN s : i < j => s[i][2] >= s[j][2]}

\* the names and weights of the sequences whose best hit is in the cluster
cluster_hit_seqs(c) == {q \in QueryIds : best_hit[q] = c}

(* ---- the decisions of select.py ---- *)

\* variant: subprocess.call, the exit code is dropped
check_call_ignored(code) == FALSE

\* subprocess.check_call: raises on a non-zero exit
check_call(code) == code # 0

\* cluster_weight / total_weight < min_cluster_prop, with the proportion k / PropDen
below_min_prop(cw, tw, k) == cw * PropDen < k * tw

\* [i for i in sequences if i.id in r]
cluster_filter(sequences, r) == SelectSeq(sequences, LAMBDA i : i.id \in r)

\* variant: len(ref_seqs) < keep_leaves
few_enough_strict(n, keep_leaves) == n < keep_leaves

\* len(ref_seqs) <= keep_leaves
few_enough(n, keep_leaves) == n <= keep_leaves

\* [i.id for i in ref_seqs]
id_list(seqs) == [kind |-> "list", list |-> Ids(seqs), set |-> {}]

\* variant: the reference package is built from everything aligned
refpkg_input_all(seqs, ref_ids) == seqs

\* (i for i in aligned if i.id in ref_ids)
refpkg_input(seqs, ref_ids) == SelectSeq(seqs, LAMBDA i : i.id \in ref_ids)

\* variant: the difference taken the other way round
prune_result_reversed(seqs, prune) == prune \ IdSet(seqs)

\* frozenset(i.id for i in ref_seqs) - prune_leaves
prune_result(seqs, prune) == IdSet(seqs) \ prune

\* variant: the assertion is not evaluated
assert_len_off(result, keep_leaves) == TRUE

\* assert len(result) == keep_leaves
assert_len(result, keep_leaves) == Cardinality(result) = keep_leaves

\* i.id in ref_names, for either shape of ref_names
InNames(i, names) ==
    IF names.kind = "list" THEN i \in Range(names.list) ELSE i \in names.set

\* variant: every fetched reference is yielded
yielded_refs_all(refs, names, cname, cw, tw) ==
    [k \in DOMAIN refs |->
        [id |-> refs[k].id, cluster_name |-> cname, weight_prop |-> <<cw, tw>>]]

\* (i for i in cluster_refs if i.id in ref_names), annotated
yielded_refs(refs, names, cname, cw, tw) ==
    LET kept == SelectSeq(refs, LAMBDA i : InNames(i.id, names))
    IN [k \in DOMAIN kept |->
           [id |-> kept[k].id, cluster_name |-> cname,
            weight_prop |-> <<cw, tw>>]]

\* leaving a with statement releases what it acquired, however it is left
scope_exit(h) == {}

Step(tool, code, ids, n) == [tool |-> tool, exit |-> code, ids |-> ids, n |-> n]

\* a wrapped tool raises on a non-zero exit
tool_raises(code) == code # 0

\* cmalign yields one aligned record for each sequence it is given
cmalign(seqs) == [k \in DOMAIN seqs |-> seqrecord(seqs[k].id)]

(* ---- raising ---- *)

\* variant: the temporaries are not bound to a with statement
RaiseLeaking(kind) ==
    /\ pc' = "failed"
    /\ error' = [kind |-> kind, at |-> pc]
    /\ held' = held

\* an exception leaves every enclosing with statement and nothing catches it
Raise(kind) ==
    /\ pc' = "failed"
    /\ error' = [kind |-> kind, at |-> pc]
    /\ held' = scope_exit(held)

dbvars == <<weight, best_hit, refs_per_cluster, min_cluster_prop>>
loopvars == <<total_weight, cursor, cluster_name, cluster_weight>>
selvars == <<ref_seqs, aligned, prune_leaves>>

(* ---- choose_references ---- *)

\* lines 105-115: parameters, total weight, the cluster query
Prepare ==
    /\ pc = "start"
    /\ total_weight' = get_total_weight
    /\ cursor' \in order_by_weight_desc(vw_cluster_weights)
    /\ pc' = "loop"
    /\ UNCHANGED <<dbvars, cluster_name, cluster_weight, cluster_refs,
                   query_seqs, ref_names, out, selected, selvars, held,
                   steps, error, avars>>

\* line 117: the next row of the cursor
NextCluster ==
    /\ pc = "loop"
    /\ cursor # <<>>
    /\ cluster_name' = Head(cursor)[1]
    /\ cluster_weight' = Head(cursor)[2]
    /\ cursor' = Tail(cursor)
    /\ cluster_refs' = <<>>
    /\ query_seqs' = <<>>
    /\ ref_names' = NoNames
    /\ ref_seqs' = <<>>
    /\ aligned' = <<>>
    /\ prune_leaves' = {}
    /\ steps' = <<>>
    /\ pc' = "fetch_refs"
    /\ UNCHANGED <<dbvars, total_weight, out, selected, held, error, avars>>

\* line 117: the cursor is exhausted
Exhausted ==
    /\ pc = "loop"
    /\ cursor = <<>>
    /\ pc' = "done"
    /\ UNCHANGED <<dbvars, loopvars, cluster_refs, query_seqs, ref_names, out,
                   selected, selvars, held, steps, error, avars>>

\* esl_sfetch_seqs, line 88: the output file is created
esl_sfetch_open(from, to) ==
    /\ pc = from
    /\ held' = held \cup {"esl_out"}
    /\ pc' = to
    /\ UNCHANGED <<dbvars, loopvars, cluster_refs, query_seqs, ref_names, out,
                   selected, selvars, steps, error, avars>>

FetchRefsOpen == esl_sfetch_open("fetch_refs", "fetch_refs_run")
FetchQueriesOpen == esl_sfetch_open("fetch_queries", "fetch_queries_run")

\* line 119 and esl_sfetch_seqs, lines 89-91: the members of the cluster
FetchRefs ==
    /\ pc = "fetch_refs_run"
    /\ \E names \in DistinctSeqs(RefIds, MaxRefs), code \in ExitCodes :
         /\ steps' = Append(steps, Step("esl_sfetch", code, names, 0))
         /\ IF tool_raises(code)
            THEN /\ Raise("CalledProcessError")
                 /\ UNCHANGED cluster_refs
            ELSE /\ cluster_refs' = [k \in DOMAIN names |-> seqrecord(names[k])]
                 /\ held' = scope_exit(held)
                 /\ pc' = "fetch_queries"
                 /\ UNCHANGED error
    /\ UNCHANGED <<dbvars, loopvars, query_seqs, ref_names, out, selected,
                   selvars, avars>>

\* lines 118, 120-122: the hits of the cluster, annotated with their weight
FetchQueries ==
    /\ pc = "fetch_queries_run"
    /\ \E names \in DistinctSeqs(cluster_hit_seqs(cluster_name), Cardinality(QueryIds)),
          code \in ExitCodes :
         /\ Len(names) = Cardinality(cluster_hit_seqs(cluster_name))
         /\ steps' = Append(steps, Step("esl_sfetch", code, names, 0))
         /\ IF tool_raises(code)
            THEN /\ Raise("CalledProcessError")
                 /\ UNCHANGED query_seqs
            ELSE /\ query_seqs' = [k \in DOMAIN names |->
                        [id |-> names[k], weight |-> weight[names[k]]]]
                 /\ held' = scope_exit(held)
                 /\ pc' = "check"
                 /\ UNCHANGED error
    /\ UNCHANGED <<dbvars, loopvars, cluster_refs, ref_names, out, selected,
                   selvars, avars>>

\* variant: continue instead of break
BelowMinimumContinue ==
    /\ pc = "check"
    /\ below_min_prop(cluster_weight, total_weight, min_cluster_prop)
    /\ pc' = "loop"
    /\ UNCHANGED <<dbvars, loopvars, cluster_refs, query_seqs, ref_names, out,
                   selected, selvars, held, steps, error, avars>>

\* lines 124-127: the share is below the minimum, the loop is left
BelowMinimum ==
    /\ pc = "check"
    /\ below_min_prop(cluster_weight, total_weight, min_cluster_prop)
    /\ pc' = "done"
    /\ UNCHANGED <<dbvars, loopvars, cluster_refs, query_seqs, ref_names, out,
                   selected, selvars, held, steps, error, avars>>

\* line 131: select_sequences_for_cluster is called
CallSelect ==
    /\ pc = "check"
    /\ ~below_min_prop(cluster_weight, total_weight, min_cluster_prop)
    /\ selected' = Append(selected, cluster_name)
    /\ pc' = "cluster_as_fasta"
    /\ UNCHANGED <<dbvars, loopvars, cluster_refs, query_seqs, ref_names, out,
                   selvars, held, steps, error, avars>>

\* lines 133-137: the retained references are yielded
YieldRefs ==
    /\ pc = "returned"
    /\ out' = out \o yielded_refs(cluster_refs, ref_names, cluster_name,
                                  cluster_weight, total_weight)
    /\ pc' = "loop"
    /\ UNCHANGED <<dbvars, loopvars, cluster_refs, query_seqs, ref_names,
                   selected, selvars, held, steps, error, avars>>

(* ---- _cluster ---- *)

chvars == <<cluster_refs, query_seqs, out, selected>>

\* a with item is entered: the resource is held from here on
Acquire(from, resource, to) ==
    /\ pc = from
    /\ held' = held \cup {resource}
    /\ pc' = to
    /\ UNCHANGED <<dbvars, loopvars, chvars, ref_names, selvars, steps, error,
                   avars>>

\* line 29: as_fasta(sequences)
ClusterAsFasta == Acquire("cluster_as_fasta", "cluster_fasta", "cluster_ntf")

\* line 29: tempfile.NamedTemporaryFile()
ClusterTempfile == Acquire("cluster_ntf", "seeds", "usearch")

\* the names usearch may write as seeds: any names, at least one of them a
\* sequence it was given when it was given any
usearch_seeds(sequences) ==
    {r \in SUBSET ToolIds : sequences # <<>> => r \cap IdSet(sequences) # {}}

\* lines 30-37: usearch, the seeds it wrote, the sequences that are seeds
ClusterUsearch ==
    /\ pc = "usearch"
    /\ \E r \in usearch_seeds(cluster_refs), code \in ExitCodes :
         /\ steps' = Append(steps, Step("usearch", code, Ids(cluster_refs), 0))
         /\ IF check_call(code)
            THEN /\ Raise("CalledProcessError")
                 /\ UNCHANGED ref_seqs
            ELSE /\ ref_seqs' = cluster_filter(cluster_refs, r)
                 /\ held' = scope_exit(held)
                 /\ pc' = "clustered"
                 /\ UNCHANGED error
    /\ UNCHANGED <<dbvars, loopvars, chvars, ref_names, aligned, prune_leaves,
                   avars>>

(* ---- select_sequences_for_cluster ---- *)

\* lines 47-48: few enough references are left, all are kept
KeepAll ==
    /\ pc = "clustered"
    /\ few_enough(Len(ref_seqs), refs_per_cluster)
    /\ ref_names' = id_list(ref_seqs)
    /\ pc' = "returned"
    /\ UNCHANGED <<dbvars, loopvars, chvars, selvars, held, steps, error, avars>>

\* a tool of the pipeline runs between two positions
RunTool(from, tool, ids, n, to) ==
    /\ pc = from
    /\ \E code \in ExitCodes :
         /\ steps' = Append(steps, Step(tool, code, ids, n))
         /\ IF tool_raises(code)
            THEN Raise("CalledProcessError")
            ELSE /\ pc' = to
                 /\ UNCHANGED <<held, error>>

\* lines 50-52: references and queries are aligned together
Cmalign ==
    /\ pc = "clustered"
    /\ ~few_enough(Len(ref_seqs), refs_per_cluster)
    /\ RunTool("clustered", "cmalign", Ids(ref_seqs \o query_seqs), 0, "as_refpkg")
    /\ aligned' = IF pc' = "failed" THEN aligned
                  ELSE cmalign(ref_seqs \o query_seqs)
    /\ UNCHANGED <<dbvars, loopvars, chvars, ref_names, ref_seqs, prune_leaves,
                   avars>>

\* line 53: the reference package is built and held
AsRefpkg ==
    /\ pc = "as_refpkg"
    /\ \E code \in ExitCodes :
         /\ steps' = Append(steps,
                Step("refpkg", code, Ids(refpkg_input(aligned, IdSet(ref_seqs))), 0))
         /\ IF tool_raises(code)
            THEN Raise("CalledProcessError")
            ELSE /\ held' = held \cup {"refpkg"}
                 /\ pc' = "as_fasta"
                 /\ UNCHANGED error
    /\ UNCHANGED <<dbvars, loopvars, chvars, ref_names, selvars, avars>>

\* line 54: as_fasta(aligned)
AsFasta == Acquire("as_fasta", "aligned_fasta", "tempdir")

\* line 55: tempdir(prefix='jplace')
Tempdir == Acquire("tempdir", "placedir", "redupfile")

\* line 56: redupfile_of_seqs(query_seqs)
Redupfile == Acquire("redupfile", "redup", "pplacer")

\* line 58: placement of the aligned sequences on the reference package
Pplacer ==
    /\ RunTool("pplacer", "pplacer", Ids(aligned), 0, "guppy_redup")
    /\ UNCHANGED <<dbvars, loopvars, chvars, ref_names, selvars, avars>>

\* line 60: the placements are expanded again with the weights
GuppyRedup ==
    /\ RunTool("guppy_redup", "guppy_redup", Ids(query_seqs), 0, "voronoi")
    /\ UNCHANGED <<dbvars, loopvars, chvars, ref_names, selvars, avars>>

\* line 61: the leaves to prune, then the with statement is left
Voronoi ==
    /\ pc = "voronoi"
    /\ \E prune \in SUBSET ToolIds, code \in ExitCodes :
         /\ steps' = Append(steps, Step("voronoi", code, <<>>, refs_per_cluster))
         /\ IF tool_raises(code)
            THEN /\ Raise("CalledProcessError")
                 /\ UNCHANGED prune_leaves
            ELSE /\ prune_leaves' = prune
                 /\ held' = scope_exit(held)
                 /\ pc' = "pruned"
                 /\ UNCHANGED error
    /\ UNCHANGED <<dbvars, loopvars, chvars, ref_names, ref_seqs, aligned, avars>>

\* lines 63-67: the references that are not pruned, and their number
Result ==
    /\ pc = "pruned"
    /\ LET result == prune_result(ref_seqs, prune_leaves)
       IN IF assert_len(result, refs_per_cluster)
          THEN /\ ref_names' = [kind |-> "frozenset", list |-> <<>>, set |-> result]
               /\ pc' = "returned"
               /\ aligned' = <<>>          \* the locals of the call are gone
               /\ prune_leaves' = {}
               /\ UNCHANGED <<held, error>>
          ELSE /\ Raise("AssertionError")
               /\ UNCHANGED <<ref_names, aligned, prune_leaves>>
    /\ UNCHANGED <<dbvars, loopvars, chvars, ref_seqs, steps, avars>>

\* acquiring a temporary file or directory fails
AcquirePcs == {"fetch_refs", "fetch_queries", "cluster_as_fasta", "cluster_ntf",
               "as_fasta", "tempdir", "redupfile"}

AcquireFails ==
    /\ pc \in AcquirePcs
    /\ Raise("IOError")
    /\ UNCHANGED <<dbvars, loopvars, chvars, ref_names, selvars, steps, avars>>

(* ---- the specification of choose_references ---- *)

NoWeights == [kind |-> "None", counts |-> <<>>]
NoFile == [declared |-> FALSE, rows |-> <<>>]

ActionIdle ==
    /\ a_pc = "idle"
    /\ args_weights = NoFile
    /\ a_weights = NoWeights
    /\ create_calls = <<>>

ChooseInit ==
    /\ weight \in [QueryIds -> 1..MaxWeight]
    /\ best_hit \in [QueryIds -> ClusterNames \cup {"nohit"}]
    /\ refs_per_cluster \in 1..MaxKeep
    /\ min_cluster_prop \in 0..PropDen
    /\ pc = "start"
    /\ total_weight = 0
    /\ cursor = <<>>
    /\ cluster_name = "none"
    /\ cluster_weight = 0
    /\ cluster_refs = <<>>
    /\ query_seqs = <<>>
    /\ ref_names = NoNames
    /\ out = <<>>
    /\ selected = <<>>
    /\ ref_seqs = <<>>
    /\ aligned = <<>>
    /\ prune_leaves = {}
    /\ held = {}
    /\ steps = <<>>
    /\ error = NoError

Init == ChooseInit /\ ActionIdle

Next ==
    \/ Prepare
    \/ NextCluster
    \/ Exhausted
    \/ FetchRefsOpen
    \/ FetchRefs
    \/ FetchQueriesOpen
    \/ FetchQueries
    \/ BelowMinimum
    \/ CallSelect
    \/ ClusterAsFasta
    \/ ClusterTempfile
    \/ ClusterUsearch
    \/ KeepAll
    \/ Cmalign
    \/ AsRefpkg
    \/ AsFasta
    \/ Tempdir
    \/ Redupfile
    \/ Pplacer
    \/ GuppyRedup
    \/ Voronoi
    \/ Result
    \/ YieldRefs
    \/ AcquireFails

Spec == Init /\ [][Next]_vars

(* ---- the search-sequences subcommand ---- *)

\* the rows of a dedup file: the name kept and the number of sequences it stands for
WeightRows == QueryIds \X (1..MaxWeight)
WeightFiles == UNION {[1..k -> WeightRows] : k \in 0..MaxRows}

RECURSIVE CountOf(_, _)
CountOf(rows, name) ==
    IF rows = <<>> THEN 0
    ELSE (IF Head(rows)[1] = name THEN Head(rows)[2] ELSE 0)
         + CountOf(Tail(rows), name)

\* search.dedup_info_to_counts: the count of each kept name, summed over its rows
dedup_info_to_counts(rows) ==
    [kind |-> "dict",
     counts |-> [name \in {rows[k][1] : k \in DOMAIN rows} |-> CountOf(rows, name)]]

\* variant: assert weights is not None
TruthyNotNone(w) == w.kind = "dict"

\* the truth value Python gives None and a dict
Truthy(w) == w.kind = "dict" /\ DOMAIN w.counts # {}

\* lines 29-30: the output database is opened, weights = None
Connect ==
    /\ a_pc = "start"
    /\ a_weights' = NoWeights
    /\ a_pc' = "connected"
    /\ UNCHANGED <<args_weights, create_calls, cvars>>

\* lines 31-33: the weights file is read and closed
ReadWeights ==
    /\ a_pc = "connected"
    /\ args_weights.declared
    /\ a_weights' = dedup_info_to_counts(args_weights.rows)
    /\ a_pc' = "read"
    /\ UNCHANGED <<args_weights, create_calls, cvars>>

\* line 34: assert weights
AssertWeights ==
    /\ a_pc = "read"
    /\ a_pc' = IF Truthy(a_weights) THEN "create" ELSE "failed"
    /\ UNCHANGED <<args_weights, a_weights, create_calls, cvars>>

\* line 31: no weights file was given
SkipWeights ==
    /\ a_pc = "connected"
    /\ ~args_weights.declared
    /\ a_pc' = "create"
    /\ UNCHANGED <<args_weights, a_weights, create_calls, cvars>>

\* lines 35-39: search.create_database
CreateDatabase ==
    /\ a_pc = "create"
    /\ create_calls' = Append(create_calls, a_weights)
    /\ a_pc' = "done"
    /\ UNCHANGED <<args_weights, a_weights, cvars>>

ChooseIdle ==
    /\ weight = [q \in QueryIds |-> 1]
    /\ best_hit = [q \in QueryIds |-> "nohit"]
    /\ refs_per_cluster = 1
    /\ min_cluster_prop = 0
    /\ pc = "idle"
    /\ total_weight = 0
    /\ cursor = <<>>
    /\ cluster_name = "none"
    /\ cluster_weight = 0
    /\ cluster_refs = <<>>
    /\ query_seqs = <<>>
    /\ ref_names = NoNames
    /\ out = <<>>
    /\ selected = <<>>
    /\ ref_seqs = <<>>
    /\ aligned = <<>>
    /\ prune_leaves = {}
    /\ held = {}
    /\ steps = <<>>
    /\ error = NoError

ActionInit ==
    /\ a_pc = "start"
    /\ args_weights \in {NoFile} \cup
          {[declared |-> TRUE, rows |-> f] : f \in WeightFiles}
    /\ a_weights = NoWeights
    /\ create_calls = <<>>
    /\ ChooseIdle

ActionNext ==
    \/ Connect
    \/ ReadWeights
    \/ AssertWeights
    \/ SkipWeights
    \/ CreateDatabase

ActionSpec == ActionInit /\ [][ActionNext]_vars

(* ---- properties of select_sequences_for_cluster ---- *)

\* C1: when the clustering step leaves at most keep_leaves references, the
\* call returns the identifiers of exactly those references, one for each,
\* in the order of the reduced list, whatever the query sequences are.
KeepAllReturnsReducedIds ==
    (pc = "returned" /\ Len(ref_seqs) <= refs_per_cluster) =>
        /\ ref_names.kind = "list"
        /\ Len(ref_names.list) = Len(ref_seqs)
        /\ \A k \in DOMAIN ref_seqs : ref_names.list[k] = ref_seqs[k].id

KeepAllWitness ==
    /\ pc = "returned"
    /\ Len(ref_seqs) = 2
    /\ Len(ref_seqs) <= refs_per_cluster
    /\ Len(ref_seqs) < Len(cluster_refs)
    /\ query_seqs # <<>>

\* the identifiers a returned ref_names stands for
Names(names) == IF names.kind = "list" THEN Range(names.list) ELSE names.set
NameCount(names) ==
    IF names.kind = "list" THEN Len(names.list) ELSE Cardinality(names.set)

\* C2, as claimed: whenever more than keep_leaves references are passed in,
\* the call returns exactly keep_leaves identifiers, all of references passed in.
ReturnsKeepOfPassedIn ==
    (pc = "returned" /\ Len(cluster_refs) > refs_per_cluster) =>
        /\ NameCount(ref_names) = refs_per_cluster
        /\ Names(ref_names) \subseteq IdSet(cluster_refs)

\* C2, amended: whenever more than keep_leaves references are left after the
\* clustering step and the call returns, it returns exactly keep_leaves
\* identifiers, each the identifier of a reference passed in and none a
\* query identifier or a name only the pruning tool reported.
ReturnsKeepOfReduced ==
    (pc = "returned" /\ Len(ref_seqs) > refs_per_cluster) =>
        /\ ref_names.kind = "frozenset"
        /\ Cardinality(ref_names.set) = refs_per_cluster
        /\ ref_names.set \subseteq IdSet(cluster_refs)
        /\ ref_names.set \cap (QueryIds \cup ForeignIds) = {}

ReturnsKeepWitness ==
    /\ pc = "returned"
    /\ Len(ref_seqs) > refs_per_cluster
    /\ refs_per_cluster = 2
    /\ ref_names.kind = "frozenset"
    /\ query_seqs # <<>>

(* ---- properties of choose_references ---- *)

RowBelow(r) == below_min_prop(r[2], get_total_weight, min_cluster_prop)
Visited == IF pc = "start" THEN {}
           ELSE {r \in vw_cluster_weights : r \notin Range(cursor)}
YieldedFor(c) == {k \in DOMAIN out : out[k].cluster_name = c}
BeforeCheck == {"fetch_refs", "fetch_refs_run", "fetch_queries",
                "fetch_queries_run", "check"}

\* C3: the loop is left at the first cluster whose share is below
\* min_cluster_prop: that cluster stays the current one for good, and
\* select_sequences_for_cluster is never called and no reference ever yielded
\* for it or for any cluster after it in the cursor.
StopsAtFirstBelowMinimum ==
    /\ \A r \in vw_cluster_weights :
         RowBelow(r) => r[1] \notin Range(selected) /\ YieldedFor(r[1]) = {}
    /\ \A r \in Visited :
         RowBelow(r) => /\ cluster_name = r[1]
                        /\ pc \in BeforeCheck \cup {"done", "failed"}
    /\ \A k \in DOMAIN cursor :
         cursor[k][1] \notin Range(selected) /\ YieldedFor(cursor[k][1]) = {}

StopsWitness ==
    /\ pc = "done"
    /\ cursor # <<>>
    /\ below_min_prop(cluster_weight, total_weight, min_cluster_prop)

\* a share a is at most a share b, shares being <<numerator, denominator>>
ShareLeq(a, b) == a[1] * b[2] <= b[1] * a[2]
ViewWeight(c) == SumOver(weight, cluster_hit_seqs(c))

\* C4: clusters are processed in non-increasing order of weight share: a
\* cluster selected later has no greater share than one selected earlier, and
\* weight_prop never increases along the yielded references.
SharesNeverIncrease ==
    /\ \A i, j \in DOMAIN out :
         i < j => ShareLeq(out[j].weight_prop, out[i].weight_prop)
    /\ \A i, j \in DOMAIN selected :
         i < j => ShareLeq(<<ViewWeight(selected[j]), get_total_weight>>,
                           <<ViewWeight(selected[i]), get_total_weight>>)
    /\ \A k \in DOMAIN cursor :
         pc # "start" /\ cluster_name # "none" =>
             ShareLeq(<<cursor[k][2], total_weight>>,
                      <<cluster_weight, total_weight>>)

SharesWitness ==
    /\ Len(out) >= 2
    /\ Len(selected) = 2
    /\ out[1].cluster_name # out[Len(out)].cluster_name
    /\ ~ShareLeq(out[1].weight_prop, out[Len(out)].weight_prop)

\* C5, as claimed: a processed cluster for which more than refs_per_cluster
\* references were fetched has exactly refs_per_cluster references selected.
ExactCountOfFetched ==
    (pc = "loop" /\ ref_names.kind # "none"
        /\ Len(cluster_refs) > refs_per_cluster) =>
        Cardinality(YieldedFor(cluster_name)) = refs_per_cluster

\* C5, amended: a processed cluster for which more than refs_per_cluster
\* references are left after the clustering step has exactly
\* refs_per_cluster references selected and yielded.
ExactCountOfReduced ==
    (pc = "loop" /\ ref_names.kind # "none"
        /\ Len(ref_seqs) > refs_per_cluster) =>
        /\ Cardinality(YieldedFor(cluster_name)) = refs_per_cluster
        /\ {out[k].id : k \in YieldedFor(cluster_name)} = ref_names.set

ExactCountWitness ==
    /\ pc = "loop"
    /\ ref_names.kind = "frozenset"
    /\ Len(ref_seqs) > refs_per_cluster
    /\ Len(cluster_refs) > Len(ref_seqs)
    /\ Len(selected) = 2

(* ---- failures ---- *)

AssertionStep ==
    /\ (pc = "pruned" /\ Cardinality(IdSet(ref_seqs) \ prune_leaves) # refs_per_cluster) =>
          /\ pc' = "failed"
          /\ error'.kind = "AssertionError"
          /\ ref_names' = NoNames
          /\ out' = out
          /\ YieldedFor(cluster_name) = {}
    /\ (pc = "failed") => (pc' = "failed" /\ out' = out /\ cursor' = cursor
                            /\ selected' = selected /\ steps' = steps)

\* C6: when more than keep_leaves references are left and the references that
\* are not pruned are not exactly keep_leaves, the call fails with an
\* AssertionError and returns nothing; nothing handles the failure, so no
\* reference of the cluster is yielded and no later cluster is processed.
AssertionFailureIsFatal == [][AssertionStep]_vars

AssertionWitness ==
    /\ pc = "failed"
    /\ error.kind = "AssertionError"
    /\ cursor # <<>>
    /\ prune_leaves \cap ForeignIds # {}

\* C7: a tool that exits non-zero is the last tool invoked for the cluster:
\* it is not run again, no later tool of the pipeline runs, the operation has
\* failed and no identifiers are returned or references yielded for the cluster.
ToolFailureAborts ==
    \A k \in DOMAIN steps :
        steps[k].exit # 0 =>
            /\ k = Len(steps)
            /\ pc = "failed"
            /\ error.kind = "CalledProcessError"
            /\ ref_names = NoNames
            /\ YieldedFor(cluster_name) = {}

ToolFailureWitness ==
    /\ pc = "failed"
    /\ Len(steps) = 6
    /\ steps[6].tool = "pplacer"
    /\ steps[6].exit # 0
    /\ steps[3].tool = "usearch"

\* the positions inside a with statement
InScope == {"fetch_refs_run", "fetch_queries_run", "cluster_ntf", "usearch",
            "as_fasta", "tempdir", "redupfile", "pplacer", "guppy_redup",
            "voronoi"}

\* C8: outside the with statements of _cluster, select_sequences_for_cluster
\* and esl_sfetch_seqs no temporary file or directory is held: not after a
\* normal return, not after a tool failed, not after acquiring a later
\* resource failed, and not once the operation has finished or failed.
TemporariesReleased == pc \notin InScope => held = {}

TemporariesWitness ==
    /\ pc = "failed"
    /\ error.at = "redupfile"
    /\ error.kind = "IOError"
    /\ held = {}

(* ---- the pipeline of one call ---- *)

Pipeline == <<"usearch", "cmalign", "refpkg", "pplacer", "guppy_redup", "voronoi">>
SelectSteps == SelectSeq(steps, LAMBDA st : st.tool # "esl_sfetch")

\* C10: the tools of one call run in the order clustering, alignment of the
\* references with the queries, reference package from the aligned references
\* only, placement, re-expansion with the weights of the queries, pruning to
\* keep_leaves; each at most once and only after the one before it exited
\* zero; with at most keep_leaves references left only clustering runs.
PipelineInOrder ==
    LET ss == SelectSteps IN
    /\ Len(ss) <= Len(Pipeline)
    /\ \A k \in DOMAIN ss :
         /\ ss[k].tool = Pipeline[k]
         /\ k < Len(ss) => ss[k].exit = 0
    /\ (Len(ss) >= 2) => /\ Len(ref_seqs) > refs_per_cluster
                         /\ ss[2].ids = Ids(ref_seqs) \o Ids(query_seqs)
    /\ (Len(ss) >= 3) => /\ ss[3].ids = Ids(ref_seqs)
                         /\ Range(ss[3].ids) \cap QueryIds = {}
    /\ (Len(ss) >= 4) => ss[4].ids = ss[2].ids
    /\ (Len(ss) >= 5) => ss[5].ids = Ids(query_seqs)
    /\ (Len(ss) >= 6) => ss[6].n = refs_per_cluster
    /\ (pc \in {"clustered", "returned", "loop"} /\ Len(ss) >= 1
          /\ Len(ref_seqs) <= refs_per_cluster) => Len(ss) = 1

PipelineWitness ==
    /\ pc = "pruned"
    /\ Len(SelectSteps) = 6
    /\ query_seqs # <<>>

(* ---- the weights of the search-sequences subcommand ---- *)

\* C9: with a weights file that yields no weights the command fails and
\* create_database is never called; with no weights file it is called once
\* with weights None; with a weights file that yields weights it is called
\* once with those weights.
WeightsChecked ==
    LET w == dedup_info_to_counts(args_weights.rows) IN
    /\ a_pc # "done" => create_calls = <<>>
    /\ a_pc = "failed" => args_weights.declared /\ DOMAIN w.counts = {}
    /\ a_pc \in {"create", "done"} =>
          (args_weights.declared => DOMAIN w.counts # {})
    /\ a_pc = "done" =>
          /\ Len(create_calls) = 1
          /\ create_calls[1] = IF args_weights.declared THEN w ELSE NoWeights

WeightsWitness ==
    /\ a_pc = "failed"
    /\ args_weights.declared
    /\ create_calls = <<>>

====
